---- MODULE Spec2Model ----
(***************************************************************************)
(* bulk_scanner.py: the market scanner's run_main, with get_market_tide,   *)
(* calculate_indicators and send_sniper_email, as a state machine.         *)
(*                                                                         *)
(* Numbers.  The script computes in binary floating point.  Here prices,   *)
(* moving averages and the directional indicators are fixed-point          *)
(* hundredths (a close of 1000 is 10.00, an ADX of 2106 is 21.06), as is   *)
(* relative volume; the backtest's ratios (forward return, win rate,       *)
(* average return) are fixed-point ten-thousandths; every division rounds  *)
(* down.  The price tapes below are multiples of 0.20, so both moving      *)
(* averages are exact.  A win rate is the exact ratio: the script's float  *)
(* is >= 55 exactly when the ratio is (11 wins in 20 is computed as        *)
(* 55.00000000000001).                                                     *)
(* NaN is the pandas "undefined" of a rolling window that is not full.     *)
(***************************************************************************)
EXTENDS Integers, Sequences, FiniteSets, TLC

\* ------------------------------------------------------------------ bounds
MaxTickers == 2      \* longest ticker list read from tickers.txt
MaxBars == 82        \* longest daily history the provider returns
MaxRows == 3         \* longest indicator table of TableSpec
MaxHist == 7         \* longest replay table of TableSpec

\* ------------------------------------------------------- program constants
period == 14                  \* calculate_indicators: ADX window
SMA10Window == 10
SMA20Window == 20
TideWindow == 20              \* get_market_tide: rolling(window=20)
MinMarketCap == 100000000     \* mkt_cap < 100_000_000
MinPrice == 100               \* price < 1.00, in hundredths
MinVolBars == 20              \* len(vol_df) < 20
MinAvgVolume == 300000        \* avg_vol_20d < 300_000
MinRelVol == 150              \* rel_vol < 1.5, in hundredths
AdxFloor == 2000              \* ADX > 20, in hundredths
Horizon == 3                  \* idx + 3
MinWinRate == 550000          \* win_rate >= 55, in ten-thousandths
MinAvgReturn == 30000         \* avg_3d_return >= 3.0, in ten-thousandths

\* An undefined float.  Every column that can hold it is non-negative.
NaN == 0 - 1

Abs(x) == IF x < 0 THEN 0 - x ELSE x
Max2(a, b) == IF a > b THEN a ELSE b

\* Python/pandas ordering of floats: any comparison with NaN is False.
Gt(a, b) == a # NaN /\ b # NaN /\ a > b
Lt(a, b) == a # NaN /\ b # NaN /\ a < b

\* a / b of two like quantities, in hundredths and in ten-thousandths.
Hundredths(a, b) == (a * 100) \div b
TenThousandths(a, b) == (a * 10000) \div b

\* round(x / q) to an integer, ties to even, as Python's round and format do.
RoundDiv(x, q) ==
    LET d == x \div q
        r == x % q
    IN IF 2 * r < q THEN d
       ELSE IF 2 * r > q THEN d + 1
       ELSE IF d % 2 = 0 THEN d ELSE d + 1

\* A column or a table as a sequence value, every row computed.
Column(f) == SubSeq(f, 1, Len(f))

RECURSIVE SumTo(_, _, _)
SumTo(col, lo, hi) == IF lo > hi THEN 0 ELSE col[hi] + SumTo(col, lo, hi - 1)

\* Series.rolling(w).mean() at row i: undefined until w rows are in the
\* window and while any of them is undefined.
RollingMean(col, w, i) ==
    IF i < w THEN NaN
    ELSE IF \E j \in (i - w + 1)..i : col[j] = NaN THEN NaN
    ELSE SumTo(col, i - w + 1, i) \div w

\* ------------------------------------------------- calculate_indicators(df)
\* bars: a sequence of [High, Low, Close].  The result keeps the columns that
\* run_main reads: Close, SMA10, SMA20, ADX.
PlusDM(bars, i) ==
    IF i = 1 THEN 0
    ELSE LET UpMove == bars[i].High - bars[i - 1].High
             DownMove == bars[i - 1].Low - bars[i].Low
         IN IF UpMove > DownMove /\ UpMove > 0 THEN UpMove ELSE 0

MinusDM(bars, i) ==
    IF i = 1 THEN 0
    ELSE LET UpMove == bars[i].High - bars[i - 1].High
             DownMove == bars[i - 1].Low - bars[i].Low
         IN IF DownMove > UpMove /\ DownMove > 0 THEN DownMove ELSE 0

TrueRange(bars, i) ==
    IF i = 1 THEN bars[1].High - bars[1].Low
    ELSE Max2(bars[i].High - bars[i].Low,
              Max2(Abs(bars[i].High - bars[i - 1].Close),
                   Abs(bars[i].Low - bars[i - 1].Close)))

\* 100 * (dm.rolling(period).mean() / TR.rolling(period).mean()); 0/0 is NaN.
DI(dmMean, trMean) ==
    IF dmMean = NaN \/ trMean = NaN \/ trMean = 0 THEN NaN
    ELSE Hundredths(100 * dmMean, trMean)

\* 100 * (abs(+DI - -DI) / (+DI + -DI)); 0/0 is NaN.
DXOf(pdi, mdi) ==
    IF pdi = NaN \/ mdi = NaN \/ pdi + mdi = 0 THEN NaN
    ELSE Hundredths(100 * Abs(pdi - mdi), pdi + mdi)

calculate_indicators(bars) ==
    LET n == Len(bars)
        pdm == Column([i \in 1..n |-> PlusDM(bars, i)])
        mdm == Column([i \in 1..n |-> MinusDM(bars, i)])
        tr == Column([i \in 1..n |-> TrueRange(bars, i)])
        trm == Column([i \in 1..n |-> RollingMean(tr, period, i)])
        pdi == Column([i \in 1..n |-> DI(RollingMean(pdm, period, i), trm[i])])
        mdi == Column([i \in 1..n |-> DI(RollingMean(mdm, period, i), trm[i])])
        dx == Column([i \in 1..n |-> DXOf(pdi[i], mdi[i])])
        close == Column([i \in 1..n |-> bars[i].Close])
    IN Column([i \in 1..n |->
          [Close |-> bars[i].Close,
           ADX |-> RollingMean(dx, period, i),
           SMA10 |-> RollingMean(close, SMA10Window, i),
           SMA20 |-> RollingMean(close, SMA20Window, i)]])

\* ------------------------------------------------ the provider's histories
\* Daily closes follow a repeating cycle of moves from 10.00; the day's high
\* and low are 0.20 either side of the close.  A history is the first n bars
\* of such a tape.
Patterns ==
    { <<60, 0 - 120, 60, 60, 200>>,   \* volatile uptrend
      <<0 - 40, 40, 60>>,             \* steady uptrend
      <<0 - 40, 0, 60>>,              \* slow uptrend
      <<0>>,                          \* flat: no directional movement
      <<20, 0 - 40>> }                \* downtrend

RECURSIVE TapeClose(_, _)
TapeClose(pat, i) ==
    IF i = 1 THEN 1000
    ELSE TapeClose(pat, i - 1) + pat[((i - 2) % Len(pat)) + 1]

MakeBars(pat, n) ==
    Column([i \in 1..n |->
        LET c == TapeClose(pat, i)
        IN [High |-> c + 20, Low |-> c - 20, Close |-> c]])

BarCounts == {0, 1, 2, 20, 28, 29, MaxBars - 5, MaxBars}

Histories == { MakeBars(pat, n) : pat \in Patterns, n \in BarCounts }

\* Each history with df = calculate_indicators(df); constant-level, so the
\* tables are computed once.
IndicatorTables ==
    { [bars |-> b, df |-> calculate_indicators(b)] : b \in Histories }

\* ------------------------------------------------------- get_market_tide()
\* SPY closes of the last 50 days: a level run that ends on one last close.
SpyHistories ==
    {<<>>} \cup
    { [k \in 1..n |-> IF k < n THEN 40000 ELSE last] :
        n \in {19, 50}, last \in {39000, 40000, 41000} }

TideUnavailable == "Proceeding: SPY data unavailable."
TideLow == "Market Tide is LOW"
TideHealthy == "Market Tide is Healthy."
TideError == "Proceeding: Tide check error"

get_market_tide(spy) ==
    IF spy = <<>> THEN <<TRUE, TideUnavailable>>
    ELSE LET spy_sma20 == RollingMean(spy, TideWindow, Len(spy))
             current_spy == spy[Len(spy)]
         IN IF Lt(current_spy, spy_sma20) THEN <<FALSE, TideLow>>
            ELSE <<TRUE, TideHealthy>>

\* ------------------------------------------------- send_sniper_email(df, msg)
FileNotFound == "Error: tickers.txt not found in repository."

send_sniper_email(results, status_msg, delivered) ==
    [subject |-> IF results = <<>> THEN "Scanner Report: Zero Hits"
                 ELSE "Sniper Alert",
     hits |-> Len(results),
     status |-> status_msg,
     table |-> results,
     log |-> IF delivered THEN "Email sent successfully." ELSE "Email failed"]

\* send_sniper_email without its try/except: a failed delivery ends the run.
AfterEmailUncaught(delivered) == IF delivered THEN "done" ELSE "crashed"

\* Where run_main stands once send_sniper_email returns: the SMTP failure is
\* caught inside it.
AfterEmail(delivered) == "done"

\* ----------------------------------------------------------- the inputs
Symbols == {"AAA", "BBB"}

RECURSIVE SeqsUpTo(_, _)
SeqsUpTo(S, n) ==
    IF n = 0 THEN {<<>>}
    ELSE LET shorter == SeqsUpTo(S, n - 1)
         IN shorter \cup { Append(q, x) : q \in shorter, x \in S }

\* tickers.txt after strip/upper and with the blank lines dropped.
TickerLists == SeqsUpTo(Symbols, MaxTickers)

\* Python's None, where a price or a market cap may be None.
None == 0 - 2

\* t.info: a dict that may lack any of the three keys.
Infos ==
    { [marketCap |-> c, currentPrice |-> p, regularMarketPrice |-> r] :
        c \in {None, 99999999, 100000000},
        p \in {None, 0, 99, 100},
        r \in {None, 100} }
    \cup
    { [currentPrice |-> p, regularMarketPrice |-> r] :
        p \in {None, 100}, r \in {None} }

\* dict.get(key, default)
Get(d, key, default) == IF key \in DOMAIN d THEN d[key] ELSE default

\* a or b: a unless it is None or zero
Or(a, b) == IF a = None \/ a = 0 THEN b ELSE a

\* t.history(period="21d")['Volume']: a level run and today's volume.
VolHistories ==
    {<<>>} \cup
    { [k \in 1..n |-> IF k < n THEN base ELSE today] :
        n \in {19, 20, 21},
        base \in {0, 299999, 300000},
        today \in {0, 449999, 450000} }

Mean(col, lo, hi) == SumTo(col, lo, hi) \div (hi - lo + 1)

RelVol(today_v, avg_v) == IF avg_v > 0 THEN Hundredths(today_v, avg_v) ELSE 0

\* not (mkt_cap < 100_000_000 or price < 1.00)
PassesCapAndPrice(cap, p) == ~(cap < MinMarketCap \/ p < MinPrice)

\* The volume gate without its relative-volume half.
PassesAverageVolume(avg_v, rv) == ~(avg_v < MinAvgVolume)

\* not (avg_vol_20d < 300_000 or rel_vol < 1.5)
PassesVolume(avg_v, rv) == ~(avg_v < MinAvgVolume \/ rv < MinRelVol)

\* --------------------------------------------------- trend and acceleration
IsTrending(today) ==
    Gt(today.Close, today.SMA10) /\ Gt(today.SMA10, today.SMA20)

IsAccelerating(today, yesterday) ==
    Gt(today.ADX, AdxFloor) /\ Gt(today.ADX, yesterday.ADX)

\* df['ADX'].shift(1) at row k
ShiftedADX(table, k) == IF k = 1 THEN NaN ELSE table[k - 1].ADX

\* The historical mask without SMA10 > SMA20.
HistMaskNoStack(table, k) ==
    /\ Gt(table[k].Close, table[k].SMA10)
    /\ Gt(table[k].ADX, AdxFloor)
    /\ Gt(table[k].ADX, ShiftedADX(table, k))

HistMask(table, k) ==
    /\ Gt(table[k].Close, table[k].SMA10)
    /\ Gt(table[k].SMA10, table[k].SMA20)
    /\ Gt(table[k].ADX, AdxFloor)
    /\ Gt(table[k].ADX, ShiftedADX(table, k))

\* The index of the selected rows, in date order (row positions from 1).
HistSignals(table) ==
    SelectSeq([k \in 1..Len(table) |-> k], LAMBDA k : HistMask(table, k))

\* ------------------------------------------------ 3-day probability backtest
\* idx + 3 < len(df), with idx counted from 0
HasForwardBar(table, k) == (k - 1) + Horizon < Len(table)

ForwardReturn(table, k) ==
    TenThousandths(table[k + Horizon].Close - table[k].Close, table[k].Close)

\* A win counted with ret >= 0.
IsWinOrFlat(ret) == ret >= 0

IsWin(ret) == ret > 0

\* A win rate that is 100 when no signal was counted.
WinRateFullWhenEmpty(w, total) ==
    IF total > 0 THEN TenThousandths(w, total) * 100 ELSE 1000000

WinRate(w, total) == IF total > 0 THEN TenThousandths(w, total) * 100 ELSE 0

AvgReturn(sum, total) == IF total > 0 THEN (sum \div total) * 100 ELSE 0

\* The filter with a strict win-rate comparison, and with no return half.
AcceptsStrictly(wr, avg) == wr > MinWinRate /\ avg >= MinAvgReturn

AcceptsOnWinRate(wr, avg) == wr >= MinWinRate

\* the 3:1 sniper profitability filter
Accepts(wr, avg) == wr >= MinWinRate /\ avg >= MinAvgReturn

MakeRecord(symbol, wr, avg, adx, p, rv) ==
    [ticker |-> symbol,
     win_rate_3d |-> RoundDiv(wr, 1000),
     exp_return_3d |-> RoundDiv(avg, 100),
     adx |-> RoundDiv(adx, 10),
     price |-> p,
     stop_loss |-> RoundDiv(p * 99, 100),
     target_price |-> RoundDiv(p * 103, 100),
     rel_vol |-> rv]

\* ------------------------------------------------------------------- state
VARIABLES
    pc,               \* where run_main stands
    tide_ok, tide_status,
    tickers,          \* the list read from tickers.txt
    taken,                \* how many symbols the for loop has taken
    all_results,
    fetched,          \* provider requests made for the current symbol
    outcome,          \* how the current symbol's iteration went
    mkt_cap, price, vol_df, avg_vol_20d, today_vol, rel_vol,
    df, is_trending, is_accelerating, hist_signals,
    replayed,         \* how many of hist_signals the backtest loop has taken
    wins, total_signals, total_return, win_rate, avg_3d_return,
    emails            \* the reports handed to send_sniper_email

gateVars == <<mkt_cap, price, vol_df, avg_vol_20d, today_vol, rel_vol>>
scanVars == <<df, is_trending, is_accelerating, hist_signals, replayed,
              wins, total_signals, total_return, win_rate, avg_3d_return>>
runVars == <<tide_ok, tide_status, tickers, taken, all_results, emails>>
vars == <<pc, fetched, outcome, gateVars, scanVars, runVars>>

\* The body of the try block, stage by stage.
TryStages ==
    {"info", "volume", "deep", "filter", "backtest", "replay", "gate", "sleep"}

\* The loop's locals before a symbol is taken.  Python keeps the last
\* iteration's values, but every one is assigned again before it is read.
FreshGate ==
    /\ mkt_cap' = 0 /\ price' = 0 /\ vol_df' = <<>>
    /\ avg_vol_20d' = 0 /\ today_vol' = 0 /\ rel_vol' = 0

FreshScan ==
    /\ df' = <<>> /\ is_trending' = FALSE /\ is_accelerating' = FALSE
    /\ hist_signals' = <<>> /\ replayed' = 0
    /\ wins' = 0 /\ total_signals' = 0 /\ total_return' = 0
    /\ win_rate' = 0 /\ avg_3d_return' = 0

Init ==
    /\ pc = "start"
    /\ tide_ok = TRUE /\ tide_status = ""
    /\ tickers = <<>> /\ taken = 0
    /\ all_results = <<>>
    /\ fetched = {} /\ outcome = "none"
    /\ mkt_cap = 0 /\ price = 0 /\ vol_df = <<>>
    /\ avg_vol_20d = 0 /\ today_vol = 0 /\ rel_vol = 0
    /\ df = <<>> /\ is_trending = FALSE /\ is_accelerating = FALSE
    /\ hist_signals = <<>> /\ replayed = 0
    /\ wins = 0 /\ total_signals = 0 /\ total_return = 0
    /\ win_rate = 0 /\ avg_3d_return = 0
    /\ emails = <<>>

\* `continue`, and the end of the loop body: back to the for statement.
Continue(how) ==
    /\ pc' = "loop"
    /\ outcome' = how
    /\ FreshScan
    /\ UNCHANGED runVars

\* An exception that is not caught ends the run.
ExceptUncaught == "crashed"

\* except: continue
ExceptTarget == "loop"

Caught ==
    /\ pc' = ExceptTarget
    /\ outcome' = "raised"
    /\ FreshScan
    /\ UNCHANGED runVars

\* tide_ok, tide_status = get_market_tide(); the gate that would use tide_ok
\* is commented out.
MarketTide ==
    /\ pc = "start"
    /\ \/ \E spy \in SpyHistories :
            /\ tide_ok' = get_market_tide(spy)[1]
            /\ tide_status' = get_market_tide(spy)[2]
       \/ /\ tide_ok' = TRUE                   \* except Exception
          /\ tide_status' = TideError
    /\ pc' = "file"
    /\ UNCHANGED <<tickers, taken, all_results, emails, fetched, outcome,
                   gateVars, scanVars>>

\* The missing-file branch without its return: open() then raises.
CheckFileNoReturn ==
    /\ pc = "file"
    /\ \/ /\ \E delivered \in BOOLEAN :
               emails' = Append(emails,
                   send_sniper_email(<<>>, FileNotFound, delivered))
          /\ pc' = "crashed"
          /\ UNCHANGED tickers
       \/ /\ tickers' \in TickerLists
          /\ pc' = "loop"
          /\ UNCHANGED emails
    /\ UNCHANGED <<tide_ok, tide_status, taken, all_results, fetched, outcome,
                   gateVars, scanVars>>

\* os.path.exists(ticker_file), and reading the list
CheckFile ==
    /\ pc = "file"
    /\ \/ /\ \E delivered \in BOOLEAN :
               /\ emails' = Append(emails,
                      send_sniper_email(<<>>, FileNotFound, delivered))
               /\ pc' = AfterEmail(delivered)
          /\ UNCHANGED tickers
       \/ /\ tickers' \in TickerLists
          /\ pc' = "loop"
          /\ UNCHANGED emails
    /\ UNCHANGED <<tide_ok, tide_status, taken, all_results, fetched, outcome,
                   gateVars, scanVars>>

\* for symbol in tickers
LoopHead ==
    /\ pc = "loop"
    /\ IF taken < Len(tickers)
       THEN /\ taken' = taken + 1
            /\ pc' = "info"
            /\ fetched' = {}
            /\ outcome' = "running"
            /\ FreshGate
       ELSE /\ pc' = "final"
            /\ UNCHANGED <<taken, fetched, outcome, gateVars>>
    /\ UNCHANGED <<tide_ok, tide_status, tickers, all_results, emails,
                   scanVars>>

\* fast filter 1: market cap and price
FetchInfo ==
    /\ pc = "info"
    /\ fetched' = fetched \cup {"info"}
    /\ \E info \in Infos :
         /\ mkt_cap' = Get(info, "marketCap", 0)
         /\ price' = Or(Get(info, "currentPrice", None),
                        Or(Get(info, "regularMarketPrice", None), 0))
         /\ IF mkt_cap' = None
            THEN Caught                        \* None < 100_000_000
            ELSE IF ~PassesCapAndPrice(mkt_cap', price')
            THEN Continue("below_cap_or_price")
            ELSE /\ pc' = "volume"
                 /\ UNCHANGED <<outcome, scanVars, runVars>>
    /\ UNCHANGED <<vol_df, avg_vol_20d, today_vol, rel_vol>>

\* fast filter 2: 20-day volume
FetchVolume ==
    /\ pc = "volume"
    /\ fetched' = fetched \cup {"history_21d"}
    /\ vol_df' \in VolHistories
    /\ IF Len(vol_df') < MinVolBars
       THEN /\ Continue("short_volume_history")
            /\ UNCHANGED <<avg_vol_20d, today_vol, rel_vol>>
       ELSE /\ avg_vol_20d' = Mean(vol_df', 1, Len(vol_df') - 1)
            /\ today_vol' = vol_df'[Len(vol_df')]
            /\ rel_vol' = RelVol(today_vol', avg_vol_20d')
            /\ IF ~PassesVolume(avg_vol_20d', rel_vol')
               THEN Continue("below_volume")
               ELSE /\ pc' = "deep"
                    /\ UNCHANGED <<outcome, scanVars, runVars>>
    /\ UNCHANGED <<mkt_cap, price>>

\* deep scan: the 250-day history, its indicators, today and yesterday
DeepScan ==
    /\ pc = "deep"
    /\ fetched' = fetched \cup {"history_250d"}
    /\ \E h \in IndicatorTables :
         IF Len(h.df) < 2
         THEN Caught                           \* df.iloc[-1], df.iloc[-2]
         ELSE /\ df' = h.df
              /\ pc' = "filter"
              /\ UNCHANGED <<outcome, is_trending, is_accelerating,
                             hist_signals, replayed, wins, total_signals,
                             total_return, win_rate, avg_3d_return, runVars>>
    /\ UNCHANGED gateVars

\* trend and acceleration of the latest bar
LiveFilter ==
    /\ pc = "filter"
    /\ LET today == df[Len(df)]
           yesterday == df[Len(df) - 1]
       IN /\ is_trending' = IsTrending(today)
          /\ is_accelerating' = IsAccelerating(today, yesterday)
    /\ pc' = IF is_trending' /\ is_accelerating' THEN "backtest" ELSE "sleep"
    /\ outcome' = IF is_trending' /\ is_accelerating' THEN outcome
                  ELSE "no_signal"
    /\ UNCHANGED <<fetched, gateVars, df, hist_signals, replayed, wins,
                   total_signals, total_return, win_rate, avg_3d_return,
                   runVars>>

\* the historical signals, and the backtest's counters at zero
Backtest ==
    /\ pc = "backtest"
    /\ hist_signals' = HistSignals(df)
    /\ replayed' = 0
    /\ wins' = 0 /\ total_signals' = 0 /\ total_return' = 0
    /\ pc' = "replay"
    /\ UNCHANGED <<fetched, outcome, gateVars, df, is_trending,
                   is_accelerating, win_rate, avg_3d_return, runVars>>

\* for date in hist_signals: one pass of the loop body
ReplayStep ==
    /\ pc = "replay"
    /\ replayed < Len(hist_signals)
    /\ replayed' = replayed + 1
    /\ IF HasForwardBar(df, hist_signals[replayed + 1])
       THEN /\ wins' = wins +
                  (IF IsWin(ForwardReturn(df, hist_signals[replayed + 1]))
                   THEN 1 ELSE 0)
            /\ total_return' = total_return +
                  ForwardReturn(df, hist_signals[replayed + 1])
            /\ total_signals' = total_signals + 1
       ELSE UNCHANGED <<wins, total_return, total_signals>>
    /\ UNCHANGED <<pc, fetched, outcome, gateVars, df, is_trending,
                   is_accelerating, hist_signals, win_rate, avg_3d_return,
                   runVars>>

\* the loop is over: win_rate and avg_3d_return
Rates ==
    /\ pc = "replay"
    /\ replayed = Len(hist_signals)
    /\ win_rate' = WinRate(wins, total_signals)
    /\ avg_3d_return' = AvgReturn(total_return, total_signals)
    /\ pc' = "gate"
    /\ UNCHANGED <<fetched, outcome, gateVars, df, is_trending,
                   is_accelerating, hist_signals, replayed, wins,
                   total_signals, total_return, runVars>>

\* the profitability filter and all_results.append
Gate ==
    /\ pc = "gate"
    /\ IF Accepts(win_rate, avg_3d_return)
       THEN /\ all_results' = Append(all_results,
                   MakeRecord(tickers[taken], win_rate, avg_3d_return,
                              df[Len(df)].ADX, price, rel_vol))
            /\ outcome' = "accepted"
       ELSE /\ outcome' = "rejected"
            /\ UNCHANGED all_results
    /\ pc' = "sleep"
    /\ UNCHANGED <<fetched, gateVars, scanVars, tide_ok, tide_status,
                   tickers, taken, emails>>

\* time.sleep(0.05), then the next symbol
Sleep ==
    /\ pc = "sleep"
    /\ Continue(outcome)
    /\ UNCHANGED <<fetched, gateVars>>

\* Any statement of the try block may raise: the provider is down or rate
\* limited, a field is missing or malformed.
TickerException ==
    /\ pc \in TryStages
    /\ Caught
    /\ UNCHANGED <<fetched, gateVars>>

\* results_df = pd.DataFrame(all_results); send_sniper_email(results_df, ...)
Final ==
    /\ pc = "final"
    /\ \E delivered \in BOOLEAN :
         /\ emails' = Append(emails,
                send_sniper_email(all_results, tide_status, delivered))
         /\ pc' = AfterEmail(delivered)
    /\ UNCHANGED <<tide_ok, tide_status, tickers, taken, all_results, fetched,
                   outcome, gateVars, scanVars>>

Next ==
    \/ MarketTide
    \/ CheckFile
    \/ LoopHead
    \/ FetchInfo
    \/ FetchVolume
    \/ DeepScan
    \/ LiveFilter
    \/ Backtest
    \/ ReplayStep
    \/ Rates
    \/ Gate
    \/ Sleep
    \/ TickerException
    \/ Final

Spec == Init /\ [][Next]_vars

\* run_main is one sequential thread: it keeps taking its next step.
FairSpec == Spec /\ WF_vars(Next)

\* ------------------------------------------------- indicator tables, direct
\* The live filter and the backtest are functions of the indicator table
\* alone.  TableSpec starts run_main at the live filter of one symbol that
\* has passed the eligibility gates, on every small table: rows with any of
\* SMA10, SMA20 and ADX undefined, and replay tables whose signal rows are
\* chosen freely.
RowKinds ==
    { [Close |-> c, SMA10 |-> m[1], SMA20 |-> m[2], ADX |-> a] :
        c \in {1000, 1100},
        m \in {<<NaN, NaN>>, <<1000, NaN>>, <<1000, 900>>, <<1000, 1000>>},
        a \in {NaN, 2000, 2100} }

SmallTables(n) == [1..n -> RowKinds]

ReplayTable(closes, signalRows) ==
    [k \in 1..Len(closes) |->
        [Close |-> closes[k],
         SMA10 |-> IF k \in signalRows THEN 900 ELSE NaN,
         SMA20 |-> IF k \in signalRows THEN 800 ELSE NaN,
         ADX |-> 2000 + 100 * k]]

ReplayTables(n) ==
    { ReplayTable(closes, rows) :
        closes \in [1..n -> {1000, 1100}], rows \in SUBSET (2..n) }

InitTable ==
    /\ pc = "filter"
    /\ tide_ok = TRUE /\ tide_status = TideHealthy
    /\ tickers = <<"AAA">> /\ taken = 1
    /\ all_results = <<>>
    /\ fetched = {"info", "history_21d", "history_250d"}
    /\ outcome = "running"
    /\ mkt_cap = MinMarketCap /\ price = MinPrice
    /\ vol_df = [k \in 1..20 |-> IF k < 20 THEN 300000 ELSE 450000]
    /\ avg_vol_20d = 300000 /\ today_vol = 450000 /\ rel_vol = 150
    /\ \/ \E n \in 2..MaxRows : df \in SmallTables(n)
       \/ \E n \in 2..MaxHist : df \in ReplayTables(n)
    /\ is_trending = FALSE /\ is_accelerating = FALSE
    /\ hist_signals = <<>> /\ replayed = 0
    /\ wins = 0 /\ total_signals = 0 /\ total_return = 0
    /\ win_rate = 0 /\ avg_3d_return = 0
    /\ emails = <<>>

NextTable ==
    \/ LiveFilter
    \/ Backtest
    \/ ReplayStep
    \/ Rates
    \/ Gate

TableSpec == InitTable /\ [][NextTable]_vars

\* ------------------------------------------------------------------ claims
Range(q) == { q[k] : k \in 1..Len(q) }

\* C1: whenever get_market_tide reports the benchmark unhealthy, no symbol is
\* taken from the list, no provider request is made for one and no candidate
\* is recorded.
C1_TideGateAborts ==
    ~tide_ok => (taken = 0 /\ fetched = {} /\ all_results = <<>>)

\* C2: when tickers.txt does not exist the run ends normally on the one report
\* that says so: it carries no candidates, no symbol was taken and no
\* provider request was made for one.
C2_MissingFile ==
    (emails # <<>> /\ emails[1].status = FileNotFound) =>
        /\ pc = "done"
        /\ Len(emails) = 1
        /\ emails[1].table = <<>> /\ emails[1].hits = 0
        /\ tickers = <<>> /\ taken = 0 /\ fetched = {}
        /\ all_results = <<>>

C2_Witness ==
    pc = "done" /\ emails # <<>> /\ emails[1].status = FileNotFound

\* C3: an exception at any stage of a symbol's processing only skips that
\* symbol: the records, the list, the position and the reports are untouched
\* and control is back at the for statement; from there the loop always
\* takes the next symbol in order (never the same one again), or, the list
\* exhausted, goes on to emit the report.
C3_FailureIsolation ==
    [][ /\ (pc \in TryStages /\ outcome' = "raised") =>
             /\ pc' = "loop"
             /\ all_results' = all_results
             /\ tickers' = tickers /\ taken' = taken
             /\ emails' = emails
        /\ pc = "loop" =>
             /\ all_results' = all_results /\ tickers' = tickers
             /\ IF taken < Len(tickers)
                THEN pc' = "info" /\ taken' = taken + 1
                ELSE pc' = "final" /\ taken' = taken
        /\ pc = "final" =>
             /\ pc' = "done" /\ Len(emails') = Len(emails) + 1
             /\ emails'[Len(emails')].table = all_results ]_vars

\* A later symbol is being processed after an earlier one raised, with a
\* record already accumulated.
C3_Witness ==
    /\ pc = "done" /\ Len(tickers) = 2 /\ taken = 2
    /\ outcome = "raised"
    /\ Len(all_results) = 1
    /\ Len(emails) = 1

\* C4: all_results only ever grows by one record at a time, for the current
\* symbol, and only when the latest bar satisfies Close > SMA10 > SMA20,
\* ADX > 20 and ADX above the previous bar's, and the backtest's win rate is
\* at least 55% and its average 3-day return at least 3%.
C4_EmissionInvariant ==
    [][ all_results' # all_results =>
          /\ Len(df) >= 2
          /\ LET today == df[Len(df)]
                 prev == df[Len(df) - 1]
             IN /\ today.SMA10 # NaN /\ today.SMA20 # NaN
                /\ today.ADX # NaN /\ prev.ADX # NaN
                /\ today.Close > today.SMA10 /\ today.SMA10 > today.SMA20
                /\ today.ADX > 2000 /\ today.ADX > prev.ADX
          /\ win_rate >= 550000 /\ avg_3d_return >= 30000
          /\ Len(all_results') = Len(all_results) + 1
          /\ SubSeq(all_results', 1, Len(all_results)) = all_results
          /\ all_results'[Len(all_results')].ticker = tickers[taken] ]_vars

C4_Witness ==
    /\ pc = "sleep" /\ outcome = "accepted"
    /\ Len(all_results) = 2
    /\ all_results[2].ticker = tickers[taken]

\* C5 as stated: a candidate is kept only if its win rate is strictly above
\* 55%.
C5_StrictWinRate ==
    (pc = "sleep" /\ outcome = "accepted") => win_rate > 550000

\* C5 as amended: the profitability filter keeps a candidate exactly when its
\* win rate is at least 55% and its average 3-day return at least 3%; a win
\* rate of exactly 55.0% is kept.
C5_GateAtLeast ==
    [][ (pc = "gate" /\ outcome' # "raised") =>
          (all_results' # all_results
             <=> (win_rate >= 550000 /\ avg_3d_return >= 30000)) ]_vars

C5_Witness ==
    /\ pc = "sleep" /\ outcome = "accepted"
    /\ win_rate = 550000
    /\ all_results # <<>>
    /\ all_results[Len(all_results)].win_rate_3d = 550

\* C6: a backtest with no counted signal gives win_rate = 0 and
\* avg_3d_return = 0, goes on normally and adds no record.
C6_ZeroSignals ==
    [][ (pc = "gate" /\ total_signals = 0) =>
          /\ wins = 0 /\ total_return = 0
          /\ win_rate = 0 /\ avg_3d_return = 0
          /\ all_results' = all_results
          /\ pc' \in {"sleep", "loop"} ]_vars

\* The only signals are on the last three bars.
C6_Witness ==
    /\ pc = "sleep" /\ outcome = "rejected"
    /\ total_signals = 0
    /\ hist_signals # <<>>
    /\ \A k \in Range(hist_signals) : k + 3 > Len(df)

\* C7: after the backtest, total_signals is the number of signal rows with a
\* bar three rows later, wins the number of those whose close-to-close return
\* is strictly positive, total_return their sum, win_rate = 100 * wins /
\* total_signals and avg_3d_return = 100 * total_return / total_signals; so
\* 0 <= wins <= total_signals and 0 <= win_rate <= 100.
C7_Return(table, k) ==
    ((table[k + 3].Close - table[k].Close) * 10000) \div table[k].Close

RECURSIVE C7_Sum(_, _)
C7_Sum(table, rows) ==
    IF rows = {} THEN 0
    ELSE LET k == CHOOSE x \in rows : TRUE
         IN C7_Return(table, k) + C7_Sum(table, rows \ {k})

C7_Aggregation ==
    pc = "gate" =>
        LET counted == { k \in Range(hist_signals) : k + 3 <= Len(df) }
        IN /\ total_signals = Cardinality(counted)
           /\ wins = Cardinality({ k \in counted : C7_Return(df, k) > 0 })
           /\ total_return = C7_Sum(df, counted)
           /\ total_signals > 0 =>
                /\ win_rate = ((wins * 10000) \div total_signals) * 100
                /\ avg_3d_return = (total_return \div total_signals) * 100
           /\ 0 <= wins /\ wins <= total_signals
           /\ 0 <= win_rate /\ win_rate <= 1000000

\* Counted signals with a gain, a loss and an unchanged close.
C7_Witness ==
    /\ pc = "gate"
    /\ total_signals >= 3
    /\ \E k \in Range(hist_signals) :
         k + 3 <= Len(df) /\ df[k + 3].Close > df[k].Close
    /\ \E k \in Range(hist_signals) :
         k + 3 <= Len(df) /\ df[k + 3].Close < df[k].Close
    /\ \E k \in Range(hist_signals) :
         k + 3 <= Len(df) /\ df[k + 3].Close = df[k].Close

\* C8: on every table the live predicate of the latest bar is true exactly
\* when the historical predicate selects the latest bar; when the backtest
\* has run, the latest bar is among hist_signals; and no selected bar has an
\* undefined SMA10, SMA20, ADX or previous-bar ADX.
C8_PredicateConsistency ==
    Len(df) >= 2 =>
        LET last == Len(df)
            live == IsTrending(df[last]) /\ IsAccelerating(df[last], df[last - 1])
            selected == Range(HistSignals(df))
        IN /\ live <=> last \in selected
           /\ pc \in {"backtest", "replay", "gate"} => live
           /\ pc = "gate" => last \in Range(hist_signals)
           /\ \A k \in selected :
                /\ df[k].SMA10 # NaN /\ df[k].SMA20 # NaN /\ df[k].ADX # NaN
                /\ k > 1 /\ df[k - 1].ADX # NaN
           /\ (\/ df[last].SMA10 = NaN \/ df[last].SMA20 = NaN
               \/ df[last].ADX = NaN \/ df[last - 1].ADX = NaN) => ~live

\* The backtest has run on a table that has an undefined row.
C8_Witness ==
    /\ pc = "gate"
    /\ Len(df) \in Range(hist_signals)
    /\ \E k \in 1..Len(df) : df[k].SMA20 = NaN /\ df[k].ADX # NaN

\* C9: every run ends, having handed exactly one report to send_sniper_email,
\* delivered or not; the report is handed over only when the ticker file is
\* missing or the whole list has been iterated.
C9_OneReport ==
    /\ <>(pc = "done")
    /\ [](Len(emails) <= 1)
    /\ [](pc = "done" => Len(emails) = 1)
    /\ [](emails # <<>> =>
            /\ pc = "done"
            /\ emails[1].status = FileNotFound \/ taken = Len(tickers))

\* The run is over although the delivery failed, with a hit in the report.
C9_Witness ==
    /\ pc = "done" /\ Len(emails) = 1
    /\ emails[1].log = "Email failed"
    /\ emails[1].hits >= 1

\* C10: the 21-day history is requested only for a symbol with market cap >=
\* 100,000,000 and price >= 1.00; the 250-day history, and every later stage
\* and record, only for one that also has at least 20 volume bars, an average
\* volume >= 300,000 and a relative volume >= 1.5, the relative volume being
\* 0 when the average is not positive.
C10_CapAndPriceOk == mkt_cap >= 100000000 /\ price >= 100

C10_VolumeOk ==
    /\ Len(vol_df) >= 20
    /\ avg_vol_20d >= 300000
    /\ rel_vol >= 150

C10_GatesFirst ==
    [][ /\ "history_21d" \in fetched' =>
             /\ "info" \in fetched' /\ C10_CapAndPriceOk'
        /\ "history_250d" \in fetched' =>
             /\ "history_21d" \in fetched'
             /\ C10_CapAndPriceOk' /\ C10_VolumeOk'
        /\ pc' \in {"deep", "filter", "backtest", "replay", "gate"} =>
             C10_CapAndPriceOk' /\ C10_VolumeOk'
        /\ pc' = "volume" => C10_CapAndPriceOk'
        /\ all_results' # all_results =>
             /\ C10_CapAndPriceOk /\ C10_VolumeOk
             /\ fetched = {"info", "history_21d", "history_250d"}
        /\ (pc = "volume" /\ Len(vol_df') >= 20 /\ outcome' # "raised") =>
             rel_vol' = IF avg_vol_20d' > 0
                        THEN (today_vol' * 100) \div avg_vol_20d' ELSE 0
        /\ (pc \in {"info", "volume"} /\ pc' = "loop") =>
             fetched' \subseteq {"info", "history_21d"} ]_vars

\* A symbol stopped at the volume gate with no average volume, after another
\* went through to a record.
C10_Witness ==
    /\ pc = "loop" /\ outcome = "below_volume"
    /\ Len(vol_df) >= 20 /\ avg_vol_20d = 0 /\ rel_vol = 0
    /\ fetched = {"info", "history_21d"}
    /\ Len(all_results) = 1
====
